---------------------------- MODULE Spec2Model ----------------------------
(***************************************************************************)
(* Book library: the canonical store (books, ratings, users, savedBooks),  *)
(* the three Firestore triggers (calculateAvgRating, syncBooksInfo,        *)
(* syncAuthorName) and the client operations that write to the store.      *)
(*                                                                         *)
(* Granularity.  A trigger invocation is one step: it takes one pending    *)
(* event (the before/after data captured when the write happened) and      *)
(* performs the handler's reads and writes.  Pending events are a bag and  *)
(* are delivered in any order, at any later time.  The client rateBook is  *)
(* three steps (its reads, the rating write, the book write), so that      *)
(* other clients and triggers run between them.                            *)
(*                                                                         *)
(* Numbers.  avgRating is an exact fraction <<n, d>> in lowest terms;      *)
(* d = 0 stands for the IEEE results of a division by zero (<<0, 0>> is    *)
(* NaN, <<1, 0>> is Infinity, <<-1, 0>> is -Infinity).                     *)
(***************************************************************************)
EXTENDS Integers, Sequences, FiniteSets, Bags, TLC

VARIABLES
    books,          \* books/{bookId}: the canonical Book documents
    ratings,        \* books/{bookId}/ratings/{ratingId}: ratingValue, 0 = no document
    ratingUser,     \* books/{bookId}/ratings/{ratingId}: the userId field
    saved,          \* users/{userId}/savedBooks/{bookId}: the projections
    users,          \* users/{userId}: the displayName of the User document
    events,         \* bag of trigger events written but not yet handled
    bookState,      \* per client: BookState.book, BookState.isBookSaved
    publishedBooks, \* per client: ProfileState.publishedBooks (the edit form's source)
    rate,           \* per client: the rateBook call in progress and its captured reads
    lastRate,       \* history: the inputs and reads of the latest rateBook submission
    lastDelete,     \* history: the latest deleted book and who held a projection of it
    ret,            \* history: what the latest trigger invocation returned and wrote
    fan,            \* one trigger invocation's fan-out loop, statement by statement
    authorState,    \* an author's AuthorState: totalPublishedBooks and its calls in flight
    guest,          \* a signed-out client's state object: loading, error, last return
    ops             \* number of client operations started

vars == <<books, ratings, ratingUser, saved, users, events, bookState, publishedBooks,
          rate, lastRate, lastDelete, ret, fan, authorState, guest, ops>>

-----------------------------------------------------------------------------
(* Bounds of the model *)

MaxRatings == 4

MaxOps == 5

MaxCalls == 2

MaxHolders == 101

(* Program constants *)

MAX_BATCH == 100

-----------------------------------------------------------------------------
(* Universe *)

Readers == {"u1", "u2", "u3"}

Authors == {"a1", "a2"}

Users == Readers \cup Authors

Books == {"b1", "b2"}

\* The users collection in document-id order (usersSnapshot.docs)
UserOrder == <<"a1", "a2", "u1", "u2", "u3">>

\* Custom claim "role" of each identity
RoleOf(u) == IF u \in Authors THEN "author" ELSE "reader"

\* The author who published each book
PublisherOf(b) == IF b = "b1" THEN "a1" ELSE "a2"

RatingValues == {2, 4, 5}

Titles == {"T1", "T2"}

Covers == {"", "c.jpg"}

Genres == {"Fiction", "Mystery"}

TagLists == {<<>>, <<"x">>}

Names == {"A", "B"}

NoDoc == [exists |-> FALSE]

NoUser == "nobody"

-----------------------------------------------------------------------------
(* Arithmetic on avgRating *)

Abs(x) == IF x < 0 THEN -x ELSE x

Sign(x) == IF x < 0 THEN -1 ELSE IF x = 0 THEN 0 ELSE 1

RECURSIVE GCD(_, _)
GCD(a, b) == IF b = 0 THEN a ELSE GCD(b, a % b)

\* n / d as JavaScript computes it, kept exact
Div(n, d) ==
    IF d = 0 THEN <<Sign(n), 0>>
    ELSE LET s == IF d < 0 THEN -1 ELSE 1
             g == GCD(Abs(n), Abs(d))
         IN  IF n = 0 THEN <<0, 1>> ELSE <<(s * n) \div g, (s * d) \div g>>

Zero == <<0, 1>>

FromInt(v) == <<v, 1>>

\* x || 0 : 0 and NaN are falsy
OrZero(x) == IF x[1] = 0 THEN Zero ELSE x

\* (currentAvgRating + newRating) / 2
Blend(avg, v) == Div(avg[1] + v * avg[2], 2 * avg[2])

\* (currentAvgRating * currentRatingCount + rating) / newRatingCount
NewRatingAvg(avg, count, v) == Div(avg[1] * count + v * avg[2], avg[2] * (count + 1))

\* (currentAvgRating * currentRatingCount - previousRating + rating) / currentRatingCount
CorrectedAvg(avg, count, prev, v) ==
    Div(avg[1] * count - prev * avg[2] + v * avg[2], avg[2] * count)

-----------------------------------------------------------------------------
(* Documents and events *)

\* The fields syncBooksInfo reads from a Book snapshot
Relevant(doc) ==
    [title |-> doc.title, coverUrl |-> doc.coverUrl, genre |-> doc.genre, tags |-> doc.tags]

RatingEvent(b, u, v) ==
    [type |-> "rating", id |-> b, user |-> u, value |-> v, before |-> NoDoc, after |-> NoDoc]

BookEvent(b, old, new) ==
    [type |-> "book", id |-> b, user |-> NoUser, value |-> 0,
     before |-> Relevant(old), after |-> Relevant(new)]

UserEvent(u, oldName, newName) ==
    [type |-> "user", id |-> u, user |-> u, value |-> 0,
     before |-> [displayName |-> oldName], after |-> [displayName |-> newName]]

Emit(bag, e) == bag (+) SetToBag({e})

Take(bag, e) == bag (-) SetToBag({e})

Pending(t) == {e \in BagToSet(events) : e.type = t}

IdleRate == [pc |-> "idle", book |-> "b1", rating |-> 0, currentAvgRating |-> Zero,
             currentRatingCount |-> 0, isNewRating |-> TRUE, previousRating |-> 0,
             result |-> TRUE, error |-> ""]

NoRate == [user |-> NoUser, book |-> "b1", rating |-> 0, oldAvg |-> Zero, oldCount |-> 0,
           isNew |-> TRUE, previous |-> 0]

NoDelete == [book |-> "none", holders |-> {}]

\* result: "null" (the handler returned null), "success" or "failure"
NoRet == [fn |-> "none", id |-> "", result |-> "null", updatedFields |-> {}, written |-> {},
          before |-> NoDoc, after |-> NoDoc]

NoBookState == [book |-> NoDoc, id |-> "", ratingValue |-> 0, isBookSaved |-> FALSE]

\* No fan-out loop is being followed
NoFan == [pc |-> "none", fn |-> "none", book |-> "b1", n |-> 0, i |-> 1, count |-> 0,
          lo |-> 1, sealed |-> FALSE, commits |-> <<>>, oldAvg |-> Zero, avg |-> Zero,
          injected |-> FALSE, outcome |-> "none", pendingAtReturn |-> FALSE]

\* AuthorState as constructed.  publish and fetch: where the publishBook call and
\* the fetchTotalPublishedBooks call of the object are; count: the count the server
\* answered; failed: the last publishBook call failed; fetched: a count was assigned
NoAuthorState == [totalPublishedBooks |-> 0, publish |-> "idle", fetch |-> "idle",
                  count |-> 0, error |-> "", failed |-> FALSE, fetched |-> FALSE]

\* The state objects of a session in which no user is signed in
StateObjects == {"BookState", "AuthorState", "ProfileState", "ReaderState"}

\* A state object as constructed: loading = false, error = null; op and returned:
\* the last mutating operation called on it and the value it returned
NoGuest == [op |-> "none", loading |-> FALSE, error |-> "", returned |-> "none"]

\* A book as publishBook stores it: avgRating 0 and no ratingCount field
PublishedBook(b) ==
    [exists |-> TRUE, title |-> "T1", coverUrl |-> "", genre |-> "Fiction", tags |-> <<>>,
     authorId |-> PublisherOf(b), authorName |-> "A", avgRating |-> Zero, ratingCount |-> 0]

Init ==
    /\ books = [b \in Books |-> PublishedBook(b)]
    /\ ratings = [b \in Books |-> [u \in Users |-> 0]]
    /\ ratingUser = [b \in Books |-> [u \in Users |-> NoUser]]
    /\ saved = [u \in Users |-> [b \in Books |-> NoDoc]]
    /\ users = [u \in Users |-> "A"]
    /\ events = EmptyBag
    /\ bookState = [u \in Users |-> NoBookState]
    /\ publishedBooks = [u \in Users |-> [b \in Books |-> NoDoc]]
    /\ rate = [u \in Users |-> IdleRate]
    /\ lastRate = NoRate
    /\ lastDelete = NoDelete
    /\ ret = NoRet
    /\ fan = NoFan
    /\ authorState = [a \in Authors |-> NoAuthorState]
    /\ guest = [o \in StateObjects |-> NoGuest]
    /\ ops = 0

\* No client call is between two of its steps and no trigger invocation is pending
Quiescent == events = EmptyBag /\ \A u \in Users : rate[u].pc = "idle"

-----------------------------------------------------------------------------
(* Access rules the store applies to client writes *)

\* match /ratings/{ratingId}: allow create, update
RatingWriteAllowed(u, owner, v) ==
    RoleOf(u) = "reader" /\ owner = u /\ v >= 1 /\ v <= 5

\* match /books/{bookId}: allow update; changed = the fields the write changes
BookUpdateAllowed(u, b, changed) ==
    \/ RoleOf(u) = "author" /\ books[b].authorId = u
    \/ RoleOf(u) = "reader" /\ changed \subseteq {"avgRating", "ratingCount", "updatedAt"}

-----------------------------------------------------------------------------
(* BookState.rateBook *)

\* A rating reference that names one document for every caller
RatingKeyShared(u) == "u1"

\* doc(db, "books", bookId, "ratings", currentUser.uid): the id of the caller's rating
RatingKey(u) == u

\* bookRating = {ratingValue: rating, userId: currentUser.uid}
BookRatingOf(u, v) == [ratingValue |-> v, userId |-> u]

RateFail(u, msg) ==
    [rate EXCEPT ![u] = [@ EXCEPT !.pc = "idle", !.result = FALSE, !.error = msg]]

\* getDoc(bookRef), getDoc(ratingRef): the reads the computation is based on
RateBookRead(u, b, v) ==
    /\ rate[u].pc = "idle"
    /\ ops < MaxRatings
    /\ ops' = ops + 1
    /\ IF ~books[b].exists
       THEN /\ rate' = [rate EXCEPT ![u] = [IdleRate EXCEPT !.book = b, !.rating = v,
                                             !.result = FALSE, !.error = "Book not found"]]
            /\ UNCHANGED lastRate
       ELSE /\ rate' = [rate EXCEPT ![u] =
                          [pc |-> "setDoc", book |-> b, rating |-> v,
                           currentAvgRating |-> OrZero(books[b].avgRating),
                           currentRatingCount |-> books[b].ratingCount,
                           isNewRating |-> (ratings[b][RatingKey(u)] = 0),
                           previousRating |-> ratings[b][RatingKey(u)],
                           result |-> TRUE, error |-> ""]]
            /\ lastRate' = [user |-> u, book |-> b, rating |-> v,
                            oldAvg |-> books[b].avgRating,
                            oldCount |-> books[b].ratingCount,
                            isNew |-> (ratings[b][RatingKey(u)] = 0),
                            previous |-> ratings[b][RatingKey(u)]]
    /\ UNCHANGED <<ratingUser, fan, authorState, guest>>
    /\ UNCHANGED <<books, ratings, saved, users, events, bookState, publishedBooks,
                   lastDelete, ret>>

\* setDoc(ratingRef, bookRating): fires calculateAvgRating when the document changes
RateBookSetDoc(u) ==
    /\ rate[u].pc = "setDoc"
    /\ LET b == rate[u].book
           k == RatingKey(u)
           r == BookRatingOf(u, rate[u].rating)
       IN  IF ~RatingWriteAllowed(u, r.userId, r.ratingValue)
           THEN /\ rate' = RateFail(u, "You don't have permission to perform this action.")
                /\ UNCHANGED <<ratings, ratingUser, events>>
           ELSE /\ ratings' = [ratings EXCEPT ![b][k] = r.ratingValue]
                /\ ratingUser' = [ratingUser EXCEPT ![b][k] = r.userId]
                /\ events' = IF ratings[b][k] # r.ratingValue \/ ratingUser[b][k] # r.userId
                             THEN Emit(events, RatingEvent(b, k, r.ratingValue))
                             ELSE events
                /\ rate' = [rate EXCEPT ![u].pc = "updateDoc"]
    /\ UNCHANGED <<fan, authorState, guest>>
    /\ UNCHANGED <<books, saved, users, bookState, publishedBooks, lastRate, lastDelete,
                   ret, ops>>

\* The average and count rateBook computes from its reads
ClientAvg(r) ==
    IF r.isNewRating
    THEN NewRatingAvg(r.currentAvgRating, r.currentRatingCount, r.rating)
    ELSE CorrectedAvg(r.currentAvgRating, r.currentRatingCount, r.previousRating, r.rating)

\* A count taken from the stored Book at the time of the write, as an atomic
\* increment would give
ClientCountFresh(r) ==
    IF r.isNewRating THEN books[r.book].ratingCount + 1 ELSE books[r.book].ratingCount

ClientCount(r) == IF r.isNewRating THEN r.currentRatingCount + 1 ELSE r.currentRatingCount

\* updateDoc(bookRef, {avgRating, ratingCount, updatedAt}), then the local display
RateBookUpdateDoc(u) ==
    /\ rate[u].pc = "updateDoc"
    /\ LET r == rate[u]
           b == r.book
       IN  IF ~books[b].exists
           THEN /\ rate' = RateFail(u, "The requested document was not found.")
                /\ UNCHANGED <<books, events, bookState>>
           ELSE IF ~BookUpdateAllowed(u, b, {"avgRating", "ratingCount", "updatedAt"})
           THEN /\ rate' = RateFail(u, "You don't have permission to perform this action.")
                /\ UNCHANGED <<books, events, bookState>>
           ELSE LET new == [books[b] EXCEPT !.avgRating = ClientAvg(r),
                                           !.ratingCount = ClientCount(r)]
                IN  /\ books' = [books EXCEPT ![b] = new]
                    /\ events' = Emit(events, BookEvent(b, books[b], new))
                    /\ bookState' =
                         IF bookState[u].book.exists
                         THEN [bookState EXCEPT
                                 ![u].book = IF bookState[u].id = b
                                             THEN [@ EXCEPT !.avgRating = ClientAvg(r)]
                                             ELSE @,
                                 ![u].ratingValue = r.rating]
                         ELSE bookState
                    /\ rate' = [rate EXCEPT ![u].pc = "idle"]
    /\ UNCHANGED <<ratingUser, fan, authorState, guest>>
    /\ UNCHANGED <<ratings, saved, users, publishedBooks, lastRate, lastDelete, ret, ops>>

\* updateDoc(bookRef, ...) rejects for a cause outside the store's contents (the
\* network, the service): the catch sets the error and rateBook returns false
RateBookUpdateDocFails(u) ==
    /\ rate[u].pc = "updateDoc"
    /\ rate' = RateFail(u, "unavailable")
    /\ UNCHANGED <<books, ratings, ratingUser, saved, users, events, bookState,
                   publishedBooks, lastRate, lastDelete, ret, fan, authorState, guest,
                   ops>>

-----------------------------------------------------------------------------
(* Trigger calculateAvgRating: books/{bookId}/ratings/{ratingId} written *)

Max(a, b) == IF a >= b THEN a ELSE b

Min(a, b) == IF a < b THEN a ELSE b

\* The users, in snapshot order, that hold a projection of book b
Holders(b) == SelectSeq(UserOrder, LAMBDA u : saved[u][b].exists)

\* The one batch object is committed when it holds MAX_BATCH updates and the next
\* batch.update on it throws, which ends the loop: only the first MAX_BATCH are written
AvgWritten(b) == {Holders(b)[i] : i \in 1..Min(Len(Holders(b)), MAX_BATCH)}

\* A write that replaces the Book document by the fields it names
AvgSet(stored, avg) ==
    [stored EXCEPT !.avgRating = avg, !.ratingCount = 0, !.title = "", !.coverUrl = "",
                   !.genre = "", !.tags = <<>>, !.authorId = "", !.authorName = ""]

\* bookRef.update({avgRating: newAvgRating, updatedAt: serverTimestamp()})
AvgUpdate(stored, avg) == [stored EXCEPT !.avgRating = avg]

\* A handler that writes the rating as the average of a book it did not find
MissingBookUpsert(b, v) ==
    [books EXCEPT ![b] = [exists |-> TRUE, title |-> "", coverUrl |-> "", genre |-> "",
                          tags |-> <<>>, authorId |-> "", authorName |-> "",
                          avgRating |-> FromInt(v), ratingCount |-> 0]]

\* if (!bookDoc.exists) return null: the books collection is left as it is
MissingBook(b, v) == books

\* newAvgRating of the handler
TriggerAvg(current, v) == IF current[1] = 0 THEN FromInt(v) ELSE Blend(current, v)

\* The books after the handler ran for the rating event e
BooksAfterAvg(e) ==
    IF ~books[e.id].exists
    THEN MissingBook(e.id, e.value)
    ELSE [books EXCEPT ![e.id] =
            AvgUpdate(books[e.id], TriggerAvg(OrZero(books[e.id].avgRating), e.value))]

\* The projections after the handler ran for the rating event e
SavedAfterAvg(e) ==
    IF ~books[e.id].exists
    THEN saved
    ELSE [u \in Users |-> [k \in Books |->
            IF k = e.id /\ u \in AvgWritten(e.id)
            THEN [saved[u][k] EXCEPT
                    !.avgRating = TriggerAvg(OrZero(books[e.id].avgRating), e.value)]
            ELSE saved[u][k]]]

CalculateAvgRating(e) ==
    /\ e \in Pending("rating")
    /\ books' = BooksAfterAvg(e)
    /\ saved' = SavedAfterAvg(e)
    /\ LET b == e.id
       IN  IF ~books[b].exists
           THEN /\ events' = Take(events, e)
                /\ ret' = [NoRet EXCEPT !.fn = "calculateAvgRating", !.id = b]
           ELSE LET to  == AvgWritten(b)
                IN  /\ events' = Emit(Take(events, e),
                                      BookEvent(b, books[b], BooksAfterAvg(e)[b]))
                    /\ ret' = [NoRet EXCEPT !.fn = "calculateAvgRating", !.id = b,
                                             !.result = "success",
                                             !.updatedFields = {"avgRating"},
                                             !.written = to]
    /\ UNCHANGED <<ratingUser, fan, authorState, guest>>
    /\ UNCHANGED <<ratings, users, bookState, publishedBooks, rate, lastRate, lastDelete,
                   ops>>

-----------------------------------------------------------------------------
(* Trigger syncBooksInfo: books/{bookId} updated *)

relevantFields == {"title", "coverUrl", "genre", "tags"}

\* beforeData[field] !== afterData[field].  title, coverUrl and genre are strings,
\* compared by value.  tags is an array: each snapshot's data() builds its own
\* array object and !== on objects compares identity, so it is always true
StrictNotEqual(field, x, y) == IF field = "tags" THEN TRUE ELSE x # y

\* Object.keys(updateData)
UpdateFields(before, after) ==
    {f \in relevantFields : StrictNotEqual(f, before[f], after[f])}

\* A patch that adds the new tags to the stored ones
ApplyPatchAppend(doc, fields, after) ==
    [k \in DOMAIN doc |-> IF k \notin fields THEN doc[k]
                          ELSE IF k = "tags" THEN doc[k] \o after[k] ELSE after[k]]

\* batch.update(savedBookRef, updateData)
ApplyPatch(doc, fields, after) ==
    [k \in DOMAIN doc |-> IF k \in fields THEN after[k] ELSE doc[k]]

\* A new batch is opened after every 100 updates: every holder is written
InfoWritten(b) == {Holders(b)[i] : i \in 1..Len(Holders(b))}

\* The projections after the handler ran for the book event e
SavedAfterInfo(e) ==
    IF UpdateFields(e.before, e.after) = {}
    THEN saved
    ELSE [u \in Users |-> [k \in Books |->
            IF k = e.id /\ u \in InfoWritten(e.id)
            THEN ApplyPatch(saved[u][k], UpdateFields(e.before, e.after), e.after)
            ELSE saved[u][k]]]

\* A handler that also stamps the Book it was fired for
EventsAfterInfoStamped(e) ==
    IF UpdateFields(e.before, e.after) = {} \/ ~books[e.id].exists
    THEN Take(events, e)
    ELSE Emit(Take(events, e), BookEvent(e.id, books[e.id], books[e.id]))

\* The pending events after the handler ran for the book event e: it writes
\* savedBooks documents only, for which no trigger is registered
EventsAfterInfo(e) == Take(events, e)

SyncBooksInfo(e) ==
    /\ e \in Pending("book")
    /\ events' = EventsAfterInfo(e)
    /\ saved' = SavedAfterInfo(e)
    /\ LET b == e.id
           fields == UpdateFields(e.before, e.after)
           to == InfoWritten(b)
       IN  IF fields = {}
           THEN /\ ret' = [NoRet EXCEPT !.fn = "syncBooksInfo", !.id = b,
                                         !.before = e.before, !.after = e.after]
           ELSE /\ ret' = [fn |-> "syncBooksInfo", id |-> b, result |-> "success",
                           updatedFields |-> fields, written |-> to,
                           before |-> e.before, after |-> e.after]
    /\ UNCHANGED <<ratingUser, fan, authorState, guest>>
    /\ UNCHANGED <<books, ratings, users, bookState, publishedBooks, rate, lastRate,
                   lastDelete, ops>>

-----------------------------------------------------------------------------
(* BookState.fetchBookById, BookState.saveBook, ReaderState.removeSavedBook *)

FetchBookById(u, b) ==
    /\ books[b].exists
    /\ bookState' = [bookState EXCEPT ![u] =
                       [book |-> books[b], id |-> b, ratingValue |-> ratings[b][RatingKey(u)],
                        isBookSaved |-> saved[u][b].exists]]
    /\ ops < MaxOps
    /\ ops' = ops + 1
    /\ UNCHANGED <<ratingUser, fan, authorState, guest>>
    /\ UNCHANGED <<books, ratings, saved, users, events, publishedBooks, rate, lastRate,
                   lastDelete, ret>>

\* The SavedBook object saveBook builds from the client's copy of the book
SavedBookOf(book) ==
    [exists |-> TRUE, title |-> book.title, authorName |-> book.authorName,
     coverUrl |-> book.coverUrl, avgRating |-> book.avgRating, genre |-> book.genre,
     tags |-> book.tags]

\* Toggles on the client's isBookSaved flag; the book is the client's copy
SaveBook(u) ==
    /\ bookState[u].book.exists
    /\ LET b == bookState[u].id
       IN  IF bookState[u].isBookSaved
           THEN /\ saved' = [saved EXCEPT ![u][b] = NoDoc]
                /\ bookState' = [bookState EXCEPT ![u].isBookSaved = FALSE]
           ELSE /\ saved' = [saved EXCEPT ![u][b] = SavedBookOf(bookState[u].book)]
                /\ bookState' = [bookState EXCEPT ![u].isBookSaved = TRUE]
    /\ ops < MaxOps
    /\ ops' = ops + 1
    /\ UNCHANGED <<ratingUser, fan, authorState, guest>>
    /\ UNCHANGED <<books, ratings, users, events, publishedBooks, rate, lastRate,
                   lastDelete, ret>>

RemoveSavedBook(u, b) ==
    /\ saved[u][b].exists
    /\ saved' = [saved EXCEPT ![u][b] = NoDoc]
    /\ ops < MaxOps
    /\ ops' = ops + 1
    /\ UNCHANGED <<ratingUser, fan, authorState, guest>>
    /\ UNCHANGED <<books, ratings, users, events, bookState, publishedBooks, rate,
                   lastRate, lastDelete, ret>>

-----------------------------------------------------------------------------
(* ProfileState.fetchPublishedBooks, editBook, deleteBook; AuthorState.deleteBook *)

\* where("authorId", "==", userId)
BooksOf(a) == {b \in Books : books[b].exists /\ books[b].authorId = a}

FetchedBooks(a) == [b \in Books |-> IF b \in BooksOf(a) THEN books[b] ELSE NoDoc]

FetchPublishedBooks(a) ==
    /\ publishedBooks' = [publishedBooks EXCEPT ![a] = FetchedBooks(a)]
    /\ ops < MaxOps
    /\ ops' = ops + 1
    /\ UNCHANGED <<ratingUser, fan, authorState, guest>>
    /\ UNCHANGED <<books, ratings, saved, users, events, bookState, rate, lastRate,
                   lastDelete, ret>>

\* The document editBook's updateDoc leaves: every field it names comes from the form,
\* which is the client's copy of the book with the edited fields; ratingCount is not named
EditedBook(stored, form, t, c, g, tg) ==
    [stored EXCEPT !.title = t, !.coverUrl = c, !.genre = g, !.tags = tg,
                   !.authorName = form.authorName, !.authorId = form.authorId,
                   !.avgRating = form.avgRating]

\* other: the edit changes description, pages or publishedDate
EditBook(a, b, t, c, g, tg, other) ==
    /\ publishedBooks[a][b].exists
    /\ books[b].exists
    /\ books[b].authorId = a
    /\ RoleOf(a) = "author"
    /\ ops < MaxOps
    /\ ops' = ops + 1
    /\ LET new == EditedBook(books[b], publishedBooks[a][b], t, c, g, tg)
       IN  /\ books' = [books EXCEPT ![b] = new]
           /\ events' = IF new # books[b] \/ other
                        THEN Emit(events, BookEvent(b, books[b], new))
                        ELSE events
           /\ publishedBooks' = [publishedBooks EXCEPT ![a] =
                                   [k \in Books |-> IF k \in BooksOf(a)
                                                    THEN (IF k = b THEN new ELSE books[k])
                                                    ELSE NoDoc]]
    /\ UNCHANGED <<ratingUser, fan, authorState, guest>>
    /\ UNCHANGED <<ratings, saved, users, bookState, rate, lastRate, lastDelete, ret>>

\* deleteDoc(bookRef): no trigger is registered for the deletion of a book
DeletedStore(b) == [books EXCEPT ![b] = NoDoc]

\* A deletion that also removes the projections of the book
DeleteBookCascade(a, b) ==
    /\ books[b].exists
    /\ books[b].authorId = a
    /\ ops < MaxOps
    /\ ops' = ops + 1
    /\ books' = DeletedStore(b)
    /\ saved' = [u \in Users |-> [saved[u] EXCEPT ![b] = NoDoc]]
    /\ lastDelete' = [book |-> b, holders |-> {u \in Users : saved[u][b].exists}]
    /\ UNCHANGED <<ratingUser, fan, authorState, guest>>
    /\ UNCHANGED <<ratings, users, events, bookState, publishedBooks, rate, lastRate, ret>>

\* ProfileState.deleteBook, which then refreshes publishedBooks
DeleteBook(a, b) ==
    /\ books[b].exists
    /\ books[b].authorId = a
    /\ RoleOf(a) = "author"
    /\ books' = DeletedStore(b)
    /\ publishedBooks' = [publishedBooks EXCEPT ![a] =
                            [k \in Books |-> IF k \in BooksOf(a) \ {b} THEN books[k]
                                                                       ELSE NoDoc]]
    /\ ops < MaxOps
    /\ ops' = ops + 1
    /\ lastDelete' = [book |-> b, holders |-> {u \in Users : saved[u][b].exists}]
    /\ UNCHANGED <<ratingUser, fan, authorState, guest>>
    /\ UNCHANGED <<ratings, saved, users, events, bookState, rate, lastRate, ret>>

\* AuthorState.deleteBook
AuthorDeleteBook(a, b) ==
    /\ books[b].exists
    /\ books[b].authorId = a
    /\ RoleOf(a) = "author"
    /\ books' = DeletedStore(b)
    /\ ops < MaxOps
    /\ ops' = ops + 1
    /\ lastDelete' = [book |-> b, holders |-> {u \in Users : saved[u][b].exists}]
    /\ authorState' = [authorState EXCEPT ![a].totalPublishedBooks = Max(0, @ - 1)]
    /\ UNCHANGED <<ratingUser, fan, guest>>
    /\ UNCHANGED <<ratings, saved, users, events, bookState, publishedBooks, rate,
                   lastRate, ret>>

-----------------------------------------------------------------------------
(* The mutating operations called while auth.currentUser is null *)

\* The mutating operations of each state object
GuestCalls ==
    {<<"BookState", "saveBook">>, <<"BookState", "rateBook">>,
     <<"AuthorState", "publishBook">>, <<"AuthorState", "editBook">>,
     <<"AuthorState", "deleteBook">>,
     <<"ProfileState", "publishBook">>, <<"ProfileState", "editBook">>,
     <<"ProfileState", "deleteBook">>, <<"ProfileState", "removeSavedBook">>,
     <<"ReaderState", "removeSavedBook">>}

\* The operations whose check of auth.currentUser is inside the try block, after
\* this.loading = true and before the finally block
ChecksInsideTry == {"saveBook", "rateBook"}

\* An operation without the finally block
LoadingLeftSet(op, loading) == IF op \in ChecksInsideTry THEN TRUE ELSE loading

\* The loading flag when the call returns: this.loading = false of the finally block
\* for the operations that check inside the try, untouched for the others
LoadingAfter(op, loading) == IF op \in ChecksInsideTry THEN FALSE ELSE loading

\* return null of publishBook, return false of the others
FailureValue(op) == IF op = "publishBook" THEN "null" ELSE "false"

\* A mutating operation called with no user signed in: it returns at the check of
\* auth.currentUser, before any store call, whatever its arguments
UnauthCall(o, op) ==
    /\ <<o, op>> \in GuestCalls
    /\ guest' = [guest EXCEPT ![o] = [op |-> op,
                                      loading |-> LoadingAfter(op, guest[o].loading),
                                      error |-> "User not authenticated",
                                      returned |-> FailureValue(op)]]
    /\ UNCHANGED <<books, ratings, ratingUser, saved, users, events, bookState,
                   publishedBooks, rate, lastRate, lastDelete, ret, fan, authorState,
                   ops>>

-----------------------------------------------------------------------------
(* AuthorState.fetchTotalPublishedBooks and AuthorState.publishBook *)

\* fetchTotalPublishedBooks is called: the count query is sent
FetchTotalSend(a) ==
    /\ authorState[a].fetch = "idle"
    /\ ops < MaxOps
    /\ ops' = ops + 1
    /\ authorState' = [authorState EXCEPT ![a].fetch = "sent"]
    /\ UNCHANGED <<books, ratings, ratingUser, saved, users, events, bookState,
                   publishedBooks, rate, lastRate, lastDelete, ret, fan, guest>>

\* getCountFromServer: the server counts the author's books
FetchTotalCount(a) ==
    /\ authorState[a].fetch = "sent"
    /\ authorState' = [authorState EXCEPT ![a].fetch = "counted",
                                          ![a].count = Cardinality(BooksOf(a))]
    /\ UNCHANGED <<books, ratings, ratingUser, saved, users, events, bookState,
                   publishedBooks, rate, lastRate, lastDelete, ret, fan, guest, ops>>

\* this.totalPublishedBooks = snapshot.data().count
FetchTotalAssign(a) ==
    /\ authorState[a].fetch = "counted"
    /\ authorState' = [authorState EXCEPT ![a].fetch = "idle",
                                          ![a].totalPublishedBooks = authorState[a].count,
                                          ![a].fetched = TRUE]
    /\ UNCHANGED <<books, ratings, ratingUser, saved, users, events, bookState,
                   publishedBooks, rate, lastRate, lastDelete, ret, fan, guest, ops>>

\* publishBook up to its await: the optimistic totalPublishedBooks++
PublishBookStart(a) ==
    /\ authorState[a].publish = "idle"
    /\ ops < MaxOps
    /\ ops' = ops + 1
    /\ authorState' = [authorState EXCEPT ![a].publish = "addDoc",
                                          ![a].error = "",
                                          ![a].failed = FALSE,
                                          ![a].totalPublishedBooks = @ + 1]
    /\ UNCHANGED <<books, ratings, ratingUser, saved, users, events, bookState,
                   publishedBooks, rate, lastRate, lastDelete, ret, fan, guest>>

\* this.totalPublishedBooks-- of publishBook's catch
RevertedTotal(a) == authorState[a].totalPublishedBooks - 1

\* addDoc rejects: the catch takes the optimistic increment back
PublishBookFails(a) ==
    /\ authorState[a].publish = "addDoc"
    /\ authorState' = [authorState EXCEPT ![a].publish = "idle",
                                          ![a].error = "unavailable",
                                          ![a].failed = TRUE,
                                          ![a].totalPublishedBooks = RevertedTotal(a)]
    /\ UNCHANGED <<books, ratings, ratingUser, saved, users, events, bookState,
                   publishedBooks, rate, lastRate, lastDelete, ret, fan, guest, ops>>

\* addDoc stores the book under a new id b; no trigger is registered for a creation
PublishBookAdds(a, b) ==
    /\ authorState[a].publish = "addDoc"
    /\ ~books[b].exists
    /\ \A u \in Users : ratings[b][u] = 0 /\ ~saved[u][b].exists
    /\ books' = [books EXCEPT ![b] = [PublishedBook(b) EXCEPT !.authorId = a,
                                                             !.authorName = users[a]]]
    /\ authorState' = [authorState EXCEPT ![a].publish = "idle"]
    /\ UNCHANGED <<ratings, ratingUser, saved, users, events, bookState,
                   publishedBooks, rate, lastRate, lastDelete, ret, fan, guest, ops>>

-----------------------------------------------------------------------------
(* UserState.updateInfo and the trigger syncAuthorName: users/{userId} updated *)

\* updateDoc(userRef, {email, displayName, updatedAt: new Date()})
UpdateInfo(u, name) ==
    /\ ops < MaxOps
    /\ ops' = ops + 1
    /\ users' = [users EXCEPT ![u] = name]
    /\ events' = Emit(events, UserEvent(u, users[u], name))
    /\ UNCHANGED <<ratingUser, fan, authorState, guest>>
    /\ UNCHANGED <<books, ratings, saved, bookState, publishedBooks, rate, lastRate,
                   lastDelete, ret>>

\* The projections whose cached author name is the given one
NamedProjections(name) ==
    {p \in Users \X Books : saved[p[1]][p[2]].exists /\ saved[p[1]][p[2]].authorName = name}

\* A sync that looks projections up by the new name
NameHoldersByNewName(e) == NamedProjections(e.after.displayName)

\* savedBooksRef.where("authorName", "==", beforeData.displayName), for every user
NameHolders(e) == NamedProjections(e.before.displayName)

\* booksBatch: authorName and updatedAt on every book of the author
RenamedBooks(a, newName) ==
    [b \in Books |-> IF b \in BooksOf(a) THEN [books[b] EXCEPT !.authorName = newName]
                                         ELSE books[b]]

RECURSIVE EmitAll(_, _, _)
\* One update event for every book of S, whose stored document becomes new[b]
EmitAll(bag, S, new) ==
    IF S = {} THEN bag
    ELSE LET b == CHOOSE x \in S : TRUE
         IN  EmitAll(Emit(bag, BookEvent(b, books[b], new[b])), S \ {b}, new)

\* A sync that goes on when the display name is unchanged
NothingToSyncByRole(e) == RoleOf(e.id) # "author" \/ BooksOf(e.id) = {}

\* The three early returns: the display name is unchanged, the user's role claim is
\* not "author", the user has no books
NothingToSync(e) ==
    \/ e.before.displayName = e.after.displayName
    \/ RoleOf(e.id) # "author"
    \/ BooksOf(e.id) = {}

\* The books after the handler ran for the user event e
BooksAfterName(e) ==
    IF NothingToSync(e) THEN books ELSE RenamedBooks(e.id, e.after.displayName)

\* The projections after the handler ran for the user event e
SavedAfterName(e) ==
    IF NothingToSync(e)
    THEN saved
    ELSE [u \in Users |-> [k \in Books |->
            IF <<u, k>> \in NameHolders(e)
            THEN [saved[u][k] EXCEPT !.authorName = e.after.displayName]
            ELSE saved[u][k]]]

SyncAuthorName(e) ==
    /\ e \in Pending("user")
    /\ books' = BooksAfterName(e)
    /\ saved' = SavedAfterName(e)
    /\ LET a == e.id
           newName == e.after.displayName
           to == NameHolders(e)
       IN  IF NothingToSync(e)
           THEN /\ events' = Take(events, e)
                /\ ret' = [NoRet EXCEPT !.fn = "syncAuthorName", !.id = a,
                                         !.before = e.before, !.after = e.after]
           ELSE /\ events' = EmitAll(Take(events, e), BooksOf(a), RenamedBooks(a, newName))
                /\ ret' = [fn |-> "syncAuthorName", id |-> a, result |-> "success",
                           updatedFields |-> {"authorName"}, written |-> to,
                           before |-> e.before, after |-> e.after]
    /\ UNCHANGED <<ratingUser, fan, authorState, guest>>
    /\ UNCHANGED <<ratings, users, bookState, publishedBooks, rate, lastRate, lastDelete,
                   ops>>

-----------------------------------------------------------------------------
(* Specification of the rating path: rateBook calls by readers on book b1, one     *)
(* submission at a time, each started only when nothing else is in progress.        *)

RatedBooks == {"b1"}

TriggerStep ==
    \/ \E e \in BagToSet(events) : CalculateAvgRating(e)
    \/ \E e \in BagToSet(events) : SyncBooksInfo(e)

RateStep ==
    \/ \E u \in Users : RateBookSetDoc(u)
    \/ \E u \in Users : RateBookUpdateDoc(u)

NextSerial ==
    \/ \E u \in Readers, b \in RatedBooks, v \in RatingValues :
          Quiescent /\ RateBookRead(u, b, v)
    \/ RateStep
    \/ TriggerStep

SpecSerial == Init /\ [][NextSerial]_vars

-----------------------------------------------------------------------------
(* Specification of the book-field propagation: authors edit and delete their      *)
(* books, readers load, save and unsave them, syncBooksInfo runs for every update. *)

Savers == {"u1", "u2"}

DeleteStep ==
    \/ \E a \in Authors, b \in Books : DeleteBook(a, b)
    \/ \E a \in Authors, b \in Books : AuthorDeleteBook(a, b)

SaveStep ==
    \/ \E u \in Savers, b \in Books : FetchBookById(u, b)
    \/ \E u \in Savers : SaveBook(u)
    \/ \E u \in Savers, b \in Books : RemoveSavedBook(u, b)

\* The number of copyable fields in which an edit form differs from the copy it
\* was opened on
FormChanges(form, t, c, g, tg) ==
    Cardinality({f \in relevantFields :
                   [title |-> t, coverUrl |-> c, genre |-> g, tags |-> tg][f] # form[f]})

\* Forms that change at most one copyable field of the copy they were opened on
EditStep ==
    \/ \E a \in Authors : FetchPublishedBooks(a)
    \/ \E a \in Authors, b \in Books, t \in Titles, c \in Covers, g \in Genres,
          tg \in TagLists, other \in BOOLEAN :
            /\ publishedBooks[a][b].exists
            /\ FormChanges(publishedBooks[a][b], t, c, g, tg) <= 1
            /\ EditBook(a, b, t, c, g, tg, other)

NextSync ==
    \/ SaveStep
    \/ EditStep
    \/ DeleteStep
    \/ \E e \in BagToSet(events) : SyncBooksInfo(e)

SpecSync == Init /\ [][NextSync]_vars

-----------------------------------------------------------------------------
(* Specification of the author-name propagation: users change their display name, *)
(* readers load, save and unsave books, syncAuthorName runs for every user update  *)
(* and syncBooksInfo for every book update it makes.                               *)

Renamers == {"a1", "a2", "u1"}

RenameStep == \E u \in Renamers, n \in Names : UpdateInfo(u, n)

NextAuthor ==
    \/ SaveStep
    \/ RenameStep
    \/ DeleteStep
    \/ \E e \in BagToSet(events) : SyncAuthorName(e)
    \/ \E e \in BagToSet(events) : SyncBooksInfo(e)

SpecAuthor == Init /\ [][NextAuthor]_vars

-----------------------------------------------------------------------------
(* Specification of rating among other operations: rateBook calls by a reader and  *)
(* by an author (whose rating write the rules refuse), started among the first     *)
(* MaxCalls operations, while the book is loaded, saved, unsaved and deleted and   *)
(* both triggers run for the writes, each at any later time.                       *)

RateCallers == {"u2", "a1"}

RateValues == {2, 4}

RateViewers == {"u2"}

NextRate ==
    \/ \E u \in RateCallers, b \in RatedBooks, v \in RateValues :
          ops < MaxCalls /\ RateBookRead(u, b, v)
    \/ RateStep
    \/ \E u \in RateViewers, b \in RatedBooks : FetchBookById(u, b)
    \/ \E u \in RateViewers : SaveBook(u)
    \/ \E a \in Authors, b \in RatedBooks : DeleteBook(a, b)
    \/ TriggerStep

SpecRate == Init /\ [][NextRate]_vars

-----------------------------------------------------------------------------
(* Specification of overlapping rateBook calls: two readers rate the same book, a  *)
(* call's book update may fail, and both triggers run at any later time.           *)

RaceCallers == {"u1", "u2"}

NextRace ==
    \/ \E u \in RaceCallers, b \in RatedBooks, v \in RateValues :
          ops < MaxCalls /\ RateBookRead(u, b, v)
    \/ RateStep
    \/ \E u \in RaceCallers : RateBookUpdateDocFails(u)
    \/ TriggerStep

SpecRace == Init /\ [][NextRace]_vars

-----------------------------------------------------------------------------
(* Specification of editing a rated book: an author loads the published books and  *)
(* saves forms that edit the title while a reader rates the book and both triggers *)
(* run.                                                                            *)

EditAuthors == {"a1"}

EditRaters == {"u1"}

NextEdit ==
    \/ \E a \in EditAuthors : FetchPublishedBooks(a)
    \/ \E u \in EditRaters, b \in RatedBooks, v \in RateValues :
          ops < MaxCalls /\ RateBookRead(u, b, v)
    \/ RateStep
    \/ \E a \in EditAuthors, b \in RatedBooks, t \in Titles, other \in BOOLEAN :
          LET form == publishedBooks[a][b]
          IN  /\ form.exists
              /\ EditBook(a, b, t, form.coverUrl, form.genre, form.tags, other)
    \/ TriggerStep

SpecEdit == Init /\ [][NextEdit]_vars

-----------------------------------------------------------------------------
(* Specification of both propagators: an author edits the title and the tags of a  *)
(* book and changes their display name while a reader loads and saves the book;    *)
(* syncBooksInfo and syncAuthorName run for every update, each at any later time.  *)

PropagateSavers == {"u1"}

NextPropagate ==
    \/ \E u \in PropagateSavers, b \in RatedBooks : FetchBookById(u, b)
    \/ \E u \in PropagateSavers : SaveBook(u)
    \/ \E a \in EditAuthors : FetchPublishedBooks(a)
    \/ \E a \in EditAuthors, b \in RatedBooks, t \in Titles, tg \in TagLists :
          LET form == publishedBooks[a][b]
          IN  /\ form.exists
              /\ EditBook(a, b, t, form.coverUrl, form.genre, tg, FALSE)
    \/ \E a \in EditAuthors, n \in Names : UpdateInfo(a, n)
    \/ \E e \in BagToSet(events) : SyncAuthorName(e)
    \/ \E e \in BagToSet(events) : SyncBooksInfo(e)

SpecPropagate == Init /\ [][NextPropagate]_vars

-----------------------------------------------------------------------------
(* Specification of the author's book count: the author's AuthorState fetches the  *)
(* count, publishes books (the addDoc may fail) and deletes books, the steps of a  *)
(* fetch and of a publishBook call interleaved in any order.                       *)

NextCount ==
    \/ \E a \in Authors : FetchTotalSend(a)
    \/ \E a \in Authors : FetchTotalCount(a)
    \/ \E a \in Authors : FetchTotalAssign(a)
    \/ \E a \in Authors : PublishBookStart(a)
    \/ \E a \in Authors : PublishBookFails(a)
    \/ \E a \in Authors, b \in Books : PublishBookAdds(a, b)
    \/ \E a \in Authors, b \in Books : AuthorDeleteBook(a, b)

SpecCount == Init /\ [][NextCount]_vars

-----------------------------------------------------------------------------
(* Specification of the trigger cascades, one at a time: a reader loads, saves and  *)
(* rates a book, its author edits the title and changes their display name, each   *)
(* call started when no event is pending; the platform delivers every pending      *)
(* event to its handler: an invocation is never postponed for ever.                *)

CascadeStep ==
    \/ \E e \in BagToSet(events) : CalculateAvgRating(e)
    \/ \E e \in BagToSet(events) : SyncAuthorName(e)
    \/ \E e \in BagToSet(events) : SyncBooksInfo(e)

NextCascade ==
    \/ \E u \in PropagateSavers, b \in RatedBooks :
          events = EmptyBag /\ FetchBookById(u, b)
    \/ \E u \in PropagateSavers :
          events = EmptyBag /\ SaveBook(u)
    \/ \E u \in EditRaters, b \in RatedBooks, v \in RateValues :
          events = EmptyBag /\ ops < MaxCalls /\ RateBookRead(u, b, v)
    \/ RateStep
    \/ \E a \in EditAuthors :
          events = EmptyBag /\ FetchPublishedBooks(a)
    \/ \E a \in EditAuthors, b \in RatedBooks, t \in Titles :
          LET form == publishedBooks[a][b]
          IN  /\ events = EmptyBag
              /\ form.exists
              /\ EditBook(a, b, t, form.coverUrl, form.genre, form.tags, FALSE)
    \/ \E a \in EditAuthors, n \in Names :
          events = EmptyBag /\ UpdateInfo(a, n)
    \/ CascadeStep

SpecCascade == Init /\ [][NextCascade]_vars /\ WF_vars(CascadeStep)

-----------------------------------------------------------------------------
(* Specification of a session with no user signed in: its state objects' mutating  *)
(* operations are called in any order while a signed-in reader loads, saves and    *)
(* unsaves a book.                                                                 *)

NextGuest ==
    \/ \E c \in GuestCalls : UnauthCall(c[1], c[2])
    \/ \E u \in PropagateSavers, b \in RatedBooks : FetchBookById(u, b)
    \/ \E u \in PropagateSavers : SaveBook(u)
    \/ \E u \in PropagateSavers, b \in RatedBooks : RemoveSavedBook(u, b)

SpecGuest == Init /\ [][NextGuest]_vars

-----------------------------------------------------------------------------
(* The fan-out of one trigger invocation, statement by statement.  The projections *)
(* that need the update are numbered 1..n in the order of the users snapshot; a    *)
(* batch is the range of projections whose update it holds.  A read of a           *)
(* projection and a commit may fail; a commit that was started completes at any    *)
(* later time, also after the handler has returned, or never.                      *)

Handlers == {"calculateAvgRating", "syncBooksInfo", "syncAuthorName"}

\* A catch that restores the average the Book had before the invocation
BooksRolledBack(f) == [books EXCEPT ![f.book] = AvgUpdate(@, f.oldAvg)]

\* catch (error) { console.error(...) }: no handler writes the Book in its catch
BooksAfterCatch(f) == books

AnyPending(f) == \E k \in 1..Len(f.commits) : f.commits[k].state = "pending"

\* batches.push(batch.commit()) of the updates lo..hi
Committing(f, lo, hi) ==
    Append(f.commits, [lo |-> lo, hi |-> hi, state |-> "pending"])

\* An exception inside the fan-out.  calculateAvgRating logs it and goes on to return
\* success; syncBooksInfo returns {success: false}; syncAuthorName rethrows it to its
\* outer catch, which returns {success: false}.  No handler lets it escape.
Caught(f, failure) ==
    [f EXCEPT !.pc = "done",
              !.outcome = IF f.fn = "calculateAvgRating" THEN "success" ELSE "failure",
              !.injected = @ \/ failure,
              !.pendingAtReturn = AnyPending(f)]

\* calculateAvgRating's loop body: the one batch object is committed when it holds
\* MAX_BATCH updates, and batch.update on a committed batch throws
CalcVisit(f) ==
    LET g == IF f.count >= MAX_BATCH
             THEN [f EXCEPT !.commits = Committing(f, f.lo, f.i - 1),
                            !.sealed = TRUE, !.count = 0]
             ELSE f
    IN  IF g.sealed THEN Caught(g, FALSE)
                    ELSE [g EXCEPT !.count = @ + 1, !.i = @ + 1]

\* The loop body of syncBooksInfo and syncAuthorName: a full batch is committed and
\* a new batch object opened
SyncVisit(f) ==
    LET g == [f EXCEPT !.count = @ + 1, !.i = @ + 1]
    IN  IF g.count >= MAX_BATCH
        THEN [g EXCEPT !.commits = Committing(g, g.lo, g.i - 1), !.lo = g.i, !.count = 0]
        ELSE g

\* The handler reaches its fan-out for book b with n projections to update;
\* calculateAvgRating has updated the Book by then
FanStart(fn, b, n, v) ==
    /\ fan.pc = "none"
    /\ books[b].exists
    /\ LET avg == IF fn = "calculateAvgRating"
                  THEN TriggerAvg(OrZero(books[b].avgRating), v)
                  ELSE books[b].avgRating
       IN  /\ books' = [books EXCEPT ![b] = AvgUpdate(@, avg)]
           /\ fan' = [pc |-> "loop", fn |-> fn, book |-> b, n |-> n, i |-> 1, count |-> 0,
                      lo |-> 1, sealed |-> FALSE, commits |-> <<>>,
                      oldAvg |-> books[b].avgRating, avg |-> avg, injected |-> FALSE,
                      outcome |-> "none", pendingAtReturn |-> FALSE]
    /\ UNCHANGED <<ratings, ratingUser, saved, users, events, bookState, publishedBooks,
                   rate, lastRate, lastDelete, ret, authorState, guest, ops>>

\* One iteration for a user that holds a projection: savedBookRef.get(), batch.update
FanVisit(readFails) ==
    /\ fan.pc = "loop"
    /\ fan.i <= fan.n
    /\ fan' = IF readFails THEN Caught(fan, TRUE)
              ELSE IF fan.fn = "calculateAvgRating" THEN CalcVisit(fan)
              ELSE SyncVisit(fan)
    /\ books' = IF fan'.pc = "done" THEN BooksAfterCatch(fan) ELSE books
    /\ UNCHANGED <<ratings, ratingUser, saved, users, events, bookState, publishedBooks,
                   rate, lastRate, lastDelete, ret, authorState, guest, ops>>

\* After the loop: if (count > 0) batches.push(batch.commit())
FanTail ==
    /\ fan.pc = "loop"
    /\ fan.i = fan.n + 1
    /\ fan' = [fan EXCEPT !.pc = "await",
                          !.commits = IF fan.count > 0 THEN Committing(fan, fan.lo, fan.n)
                                                       ELSE @]
    /\ UNCHANGED <<books, ratings, ratingUser, saved, users, events, bookState,
                   publishedBooks, rate, lastRate, lastDelete, ret, authorState, guest, ops>>

\* A commit that was started completes: all of its updates are applied, or none
FanSettle(k, ok) ==
    /\ fan.pc # "none"
    /\ k \in 1..Len(fan.commits)
    /\ fan.commits[k].state = "pending"
    /\ fan' = [fan EXCEPT !.commits[k].state = IF ok THEN "done" ELSE "failed",
                          !.injected = @ \/ ~ok]
    /\ UNCHANGED <<books, ratings, ratingUser, saved, users, events, bookState,
                   publishedBooks, rate, lastRate, lastDelete, ret, authorState, guest, ops>>

\* await Promise.all(batches): resolves when every commit has completed, rejects as
\* soon as one has failed
FanAwait ==
    /\ fan.pc = "await"
    /\ \/ /\ \E k \in 1..Len(fan.commits) : fan.commits[k].state = "failed"
          /\ fan' = Caught(fan, FALSE)
          /\ books' = BooksAfterCatch(fan)
       \/ /\ \A k \in 1..Len(fan.commits) : fan.commits[k].state = "done"
          /\ fan' = [fan EXCEPT !.pc = "done", !.outcome = "success"]
          /\ books' = books
    /\ UNCHANGED <<ratings, ratingUser, saved, users, events, bookState, publishedBooks,
                   rate, lastRate, lastDelete, ret, authorState, guest, ops>>

NextFanout ==
    \/ \E fn \in Handlers, b \in RatedBooks, n \in 0..MaxHolders, v \in RateValues :
          FanStart(fn, b, n, v)
    \/ \E readFails \in BOOLEAN : FanVisit(readFails)
    \/ FanTail
    \/ \E k \in 1..Len(fan.commits), ok \in BOOLEAN : FanSettle(k, ok)
    \/ FanAwait

SpecFanout == Init /\ [][NextFanout]_vars

\* Projection j's update is in a batch that was committed
InCommit(j) == \E k \in 1..Len(fan.commits) : fan.commits[k].lo <= j /\ j <= fan.commits[k].hi

\* Projection j's update has been applied
Applied(j) ==
    \E k \in 1..Len(fan.commits) :
        fan.commits[k].state = "done" /\ fan.commits[k].lo <= j /\ j <= fan.commits[k].hi

\* C11: in an invocation in which no read and no commit fails, every committed batch
\* holds at most 100 writes, every projection that needs the update is in a committed
\* batch, and the handler does not return while a commit is still in progress.
C11_BatchesBoundedCompleteAwaited ==
    (fan.pc = "done" /\ ~fan.injected) =>
        /\ \A k \in 1..Len(fan.commits) : fan.commits[k].hi - fan.commits[k].lo + 1 <= 100
        /\ \A j \in 1..fan.n : InCommit(j)
        /\ ~fan.pendingAtReturn

\* C12: in syncBooksInfo and syncAuthorName, when a projection read or a batch commit
\* has failed during the fan-out, the invocation ends by rejecting, never by returning.
C12_FanoutFailureRejects ==
    (/\ fan.pc = "done"
     /\ fan.fn \in {"syncBooksInfo", "syncAuthorName"}
     /\ fan.injected) =>
        fan.outcome = "rejected"

\* C14: when the aggregator's update of the projections fails after its Book update,
\* the Book keeps the average the aggregator wrote.
C14_BookUpdateNotRolledBack ==
    (fan.pc # "none" /\ fan.fn = "calculateAvgRating") =>
        books[fan.book].avgRating = fan.avg

\* The aggregator has returned after a failure in its fan-out, with the new average
\* on the Book
C14_Witness ==
    /\ fan.pc = "done"
    /\ fan.fn = "calculateAvgRating"
    /\ fan.injected
    /\ fan.avg # fan.oldAvg
    /\ books[fan.book].avgRating = fan.avg

\* C17: after the aggregator has returned success and its commits have completed,
\* every projection of the book, however many there are, has the new average.
C17_EveryProjectionHasNewAverage ==
    (/\ fan.pc = "done"
     /\ fan.fn = "calculateAvgRating"
     /\ fan.outcome = "success"
     /\ ~fan.injected
     /\ ~AnyPending(fan)) =>
        \A j \in 1..fan.n : Applied(j)

-----------------------------------------------------------------------------
(* Ratings of a book *)

Raters(b) == {u \in Users : ratings[b][u] # 0}

RECURSIVE SumRatings(_, _)
SumRatings(b, S) ==
    IF S = {} THEN 0
    ELSE LET u == CHOOSE x \in S : TRUE
         IN  ratings[b][u] + SumRatings(b, S \ {u})

\* The arithmetic mean of each rater's latest value
MeanRating(b) == Div(SumRatings(b, Raters(b)), Cardinality(Raters(b)))

\* The latest submission went through and everything it caused has finished
LastRateSettled ==
    /\ Quiescent
    /\ lastRate.user # NoUser
    /\ rate[lastRate.user].result

\* C1: after serialized rating submissions, once every aggregator invocation has
\* completed, avgRating is the mean of each rater's latest value and ratingCount is
\* the number of distinct raters.
C1_MeanOfLatestRatings ==
    Quiescent =>
        \A b \in RatedBooks :
            Raters(b) # {} =>
                /\ books[b].avgRating = MeanRating(b)
                /\ books[b].ratingCount = Cardinality(Raters(b))

\* C2: a first-time rating v leaves ratingCount = oldCount + 1 and
\* avgRating = (oldAvg * oldCount + v) / (oldCount + 1) once the rating write and its
\* aggregator invocation have completed.
C2_NewRatingIncrementalMean ==
    (LastRateSettled /\ lastRate.isNew) =>
        /\ books[lastRate.book].ratingCount = lastRate.oldCount + 1
        /\ books[lastRate.book].avgRating =
               NewRatingAvg(lastRate.oldAvg, lastRate.oldCount, lastRate.rating)

\* C3: a re-rating from o to v leaves ratingCount unchanged and
\* avgRating = (oldAvg * oldCount - o + v) / oldCount once the rating write and its
\* aggregator invocation have completed.
C3_CorrectedRatingIncrementalMean ==
    (LastRateSettled /\ ~lastRate.isNew) =>
        /\ books[lastRate.book].ratingCount = lastRate.oldCount
        /\ books[lastRate.book].avgRating =
               CorrectedAvg(lastRate.oldAvg, lastRate.oldCount, lastRate.previous,
                            lastRate.rating)

-----------------------------------------------------------------------------
(* Propagation of book fields *)

copiedFields == {"title", "coverUrl", "genre", "tags", "avgRating"}

\* C4: once no operation or trigger is pending, every existing projection has title,
\* coverUrl, genre, tags and avgRating equal to those of the canonical Book of its id.
C4_ProjectionsEqualCanonical ==
    Quiescent =>
        \A u \in Users, b \in Books :
            (saved[u][b].exists /\ books[b].exists) =>
                \A f \in copiedFields : saved[u][b][f] = books[b][f]

\* The copyable fields whose value differs between two Book snapshots
Differing(before, after) == {f \in relevantFields : before[f] # after[f]}

\* C6: when a Book update changes one copyable field, the sync sets that field on
\* every projection of the book and leaves the values of the other copyable fields
\* on them, and every projection of another book, unchanged.
C6_OneFieldChangeFrame ==
    [][\A e \in BagToSet(events) :
          (SyncBooksInfo(e) /\ Cardinality(Differing(e.before, e.after)) = 1) =>
              \A u \in Users, k \in Books :
                  saved[u][k].exists =>
                      IF k = e.id
                      THEN \A f \in relevantFields :
                              saved'[u][k][f] = IF f \in Differing(e.before, e.after)
                                                THEN e.after[f]
                                                ELSE saved[u][k][f]
                      ELSE saved'[u][k] = saved[u][k]]_vars

\* C7: a Book update that leaves title, coverUrl, genre and tags as they were makes
\* the book-field propagator write no projection document.
C7_UnchangedFieldsWriteNothing ==
    (ret.fn = "syncBooksInfo" /\ Differing(ret.before, ret.after) = {}) =>
        ret.written = {}

\* C8: the patch the book-field sync applies holds exactly the fields of
\* {title, coverUrl, genre, tags} whose value differs between the old and new Book.
C8_PatchIsExactlyTheChangedFields ==
    ret.fn = "syncBooksInfo" => ret.updatedFields = Differing(ret.before, ret.after)

-----------------------------------------------------------------------------
(* Deletion of a book *)

C10_ProjectionsDeletedWithBook ==
    (Quiescent /\ lastDelete.book # "none") =>
        \A u \in lastDelete.holders : ~saved[u][lastDelete.book].exists

-----------------------------------------------------------------------------
(* Propagation of the author name *)

\* C5: when the author-name sync for a change from A to B completes, every Book of
\* that author has authorName = B and every projection that showed A and refers to
\* one of that author's books shows B.
C5_AuthorNameSynced ==
    [][\A e \in BagToSet(events) :
          (/\ SyncAuthorName(e)
           /\ e.before.displayName # e.after.displayName
           /\ RoleOf(e.id) = "author") =>
              /\ \A b \in Books :
                    (books'[b].exists /\ books'[b].authorId = e.id) =>
                        books'[b].authorName = e.after.displayName
              /\ \A u \in Users, b \in Books :
                    (/\ saved[u][b].exists
                     /\ saved[u][b].authorName = e.before.displayName
                     /\ books[b].exists
                     /\ books[b].authorId = e.id) =>
                        /\ saved'[u][b].exists
                        /\ saved'[u][b].authorName = e.after.displayName]_vars

\* A sync for a real change of name has renamed a book and a projection of it
C5_Witness ==
    /\ ret.fn = "syncAuthorName"
    /\ ret.result = "success"
    /\ ret.before.displayName # ret.after.displayName
    /\ \E p \in ret.written :
          /\ books[p[2]].exists
          /\ books[p[2]].authorId = ret.id
          /\ books[p[2]].authorName = ret.after.displayName
          /\ saved[p[1]][p[2]].exists
          /\ saved[p[1]][p[2]].authorName = ret.after.displayName

-----------------------------------------------------------------------------
(* The rating path among other operations *)

\* C13: when the rating aggregator runs for a rating write and the parent Book does
\* not exist, it writes nothing: no Book is created or changed, no projection is
\* changed and the Rating record stays as written.
C13_MissingBookNoOp ==
    [][\A e \in BagToSet(events) :
          (CalculateAvgRating(e) /\ ~books[e.id].exists) =>
              /\ books' = books
              /\ saved' = saved
              /\ ratings' = ratings
              /\ ratingUser' = ratingUser]_vars

\* The aggregator ran for a rating of a deleted book of which a projection exists
C13_Witness ==
    /\ ret.fn = "calculateAvgRating"
    /\ ret.result = "null"
    /\ ret.id \in Books
    /\ ~books[ret.id].exists
    /\ \E u \in Users : ratings[ret.id][u] # 0
    /\ \E u \in Users : saved[u][ret.id].exists

contentFields == {"title", "authorId", "authorName", "coverUrl", "genre", "tags"}

\* C15: every write the rating path (the calculateAvgRating trigger and the client
\* rateBook) makes to a Book changes only avgRating, ratingCount and updatedAt: the
\* content fields of every Book are as before, and no Book appears or disappears.
C15_RatingPathWritesRatingFieldsOnly ==
    [][((\E u \in Users : RateBookUpdateDoc(u)) \/
        (\E e \in BagToSet(events) : CalculateAvgRating(e))) =>
          \A b \in Books :
              /\ books'[b].exists = books[b].exists
              /\ books[b].exists => \A f \in contentFields : books'[b][f] = books[b][f]]_vars

\* The client and then the aggregator have written the rating fields of a book
C15_Witness ==
    /\ ret.fn = "calculateAvgRating"
    /\ ret.result = "success"
    /\ books[ret.id].exists
    /\ books[ret.id].ratingCount > 0
    /\ books[ret.id].avgRating # Zero
    /\ \A f \in {"title", "coverUrl", "genre", "tags", "authorId", "authorName"} :
          books[ret.id][f] = PublishedBook(ret.id)[f]

\* C16: whenever the rating aggregator updates a Book it writes ratingCount together
\* with avgRating: the Book it leaves counts the ratings stored under it.
C16_AggregatorWritesCountWithAverage ==
    [][\A e \in BagToSet(events) :
          (CalculateAvgRating(e) /\ books[e.id].exists) =>
              books'[e.id].ratingCount = Cardinality(Raters(e.id))]_vars

\* C18: the client rateBook does not write its computed avgRating and ratingCount to
\* the canonical Book.
C18_ClientAverageNotPersisted ==
    [][\A u \in Users : RateBookUpdateDoc(u) => books' = books]_vars

\* C19: when rateBook has failed, the caller's Rating record is what it was before
\* the call.
C19_FailedRateLeavesRating ==
    \A u \in Users :
        (rate[u].pc = "idle" /\ ~rate[u].result /\ rate[u].error # "Book not found") =>
            ratings[rate[u].book][RatingKey(u)] = rate[u].previousRating

\* C20: every write of a Rating record is made by a rateBook call of the user whose
\* id is the record's key, and leaves that id in its userId field.
C20_RatingOwnedByCaller ==
    [][\A b \in Books, k \in Users :
          (ratings'[b][k] # ratings[b][k] \/ ratingUser'[b][k] # ratingUser[b][k]) =>
              /\ ratingUser'[b][k] = k
              /\ RateBookSetDoc(k)]_vars

\* A reader's rating is stored and the author's attempt to rate was refused
C20_Witness ==
    /\ \E b \in Books : ratings[b]["u2"] # 0 /\ ratingUser[b]["u2"] = "u2"
    /\ rate["a1"].error = "You don't have permission to perform this action."
    /\ \A b \in Books : ratings[b]["a1"] = 0

-----------------------------------------------------------------------------
(* Overlapping and repeated rateBook calls *)

\* C21: whenever rateBook takes the corrected-rating branch (the caller's prior
\* Rating exists), the count it divides by is at least 1.
C21_CorrectedDivisorAtLeastOne ==
    \A u \in Users :
        (rate[u].pc = "updateDoc" /\ ~rate[u].isNewRating) =>
            rate[u].currentRatingCount >= 1

\* Two first-time raters of one book whose calls both succeeded from the same read
\* of the Book's count
OverlappedFirstRatings(b) ==
    /\ \A u \in RaceCallers :
          /\ rate[u].pc = "idle" /\ rate[u].book = b
          /\ rate[u].result /\ rate[u].isNewRating
          /\ ratings[b][u] # 0
    /\ \A u, w \in RaceCallers : rate[u].currentRatingCount = rate[w].currentRatingCount

\* C23: a lost update exists.  When two first-time raters of the same book both
\* read the Book before either wrote it, every completion of the interleaving leaves
\* ratingCount one above the count they read, below the number of Rating records;
\* the witness is such an outcome whose avgRating is not the mean either.
C23_OverlappedRatersLoseAnUpdate ==
    \A b \in RatedBooks :
        (OverlappedFirstRatings(b) /\ books[b].exists) =>
            /\ books[b].ratingCount = rate["u1"].currentRatingCount + 1
            /\ books[b].ratingCount < Cardinality(Raters(b))

C23_Witness ==
    /\ Quiescent
    /\ OverlappedFirstRatings("b1")
    /\ Cardinality(Raters("b1")) = 2
    /\ books["b1"].ratingCount < Cardinality(Raters("b1"))
    /\ books["b1"].avgRating # MeanRating("b1")

\* C22: a step of editBook leaves avgRating and ratingCount of the edited Book as
\* they were stored, whatever was rated since the author loaded the book.
C22_EditKeepsRatingFields ==
    [][\A a \in Authors, b \in Books, t \in Titles, c \in Covers, g \in Genres,
         tg \in TagLists, other \in BOOLEAN :
           EditBook(a, b, t, c, g, tg, other) =>
               /\ books'[b].avgRating = books[b].avgRating
               /\ books'[b].ratingCount = books[b].ratingCount]_vars

\* C24: an invocation of syncAuthorName for a user whose role is not author, or whose
\* display name did not change, writes no Book and no projection and causes no
\* further trigger event.
C24_NoRoleOrNoChangeWritesNothing ==
    [][\A e \in BagToSet(events) :
         (/\ SyncAuthorName(e)
          /\ (RoleOf(e.id) # "author" \/ e.before.displayName = e.after.displayName)) =>
             /\ books' = books
             /\ saved' = saved
             /\ events' = Take(events, e)
             /\ ret'.written = {}]_vars

\* A reader's change of name was handled while a projection and a Book carried the
\* reader's old name as their author name
C24_Witness ==
    /\ ret.fn = "syncAuthorName"
    /\ RoleOf(ret.id) # "author"
    /\ ret.before.displayName # ret.after.displayName
    /\ ret.written = {}
    /\ NamedProjections(ret.before.displayName) # {}
    /\ \E b \in Books : books[b].exists /\ books[b].authorName = ret.before.displayName

\* C27: an invocation of syncAuthorName changes authorName only on projections of
\* books owned by the renamed author: the projection of a book of another author
\* keeps its authorName, also when that author has the same display name.
C27_RenameTouchesOwnProjectionsOnly ==
    [][\A e \in BagToSet(events) :
         SyncAuthorName(e) =>
             \A u \in Users, b \in Books :
                 (saved[u][b].exists /\ books[b].exists /\ books[b].authorId # e.id) =>
                     saved'[u][b].authorName = saved[u][b].authorName]_vars

\* C28: calculateAvgRating is idempotent under redelivery.  Right after an invocation
\* for a rating event, an invocation for the same event would leave every Book and
\* every projection as the first one left them.
C28_AverageRedeliveryIdempotent ==
    [][\A e \in BagToSet(events) :
         CalculateAvgRating(e) =>
             /\ BooksAfterAvg(e)' = books'
             /\ SavedAfterAvg(e)' = saved']_vars

C26_CountRevertedAfterFailedPublish ==
    \A a \in Authors :
        (/\ authorState[a].failed /\ authorState[a].publish = "idle"
         /\ authorState[a].fetched /\ authorState[a].fetch = "idle") =>
            /\ authorState[a].totalPublishedBooks = Cardinality(BooksOf(a))
            /\ authorState[a].totalPublishedBooks >= 0

\* C29: every cascade of trigger invocations terminates.  The client writes being
\* finitely many, the invocations they cause, directly or through the writes of
\* other invocations, come to an end: from some point on no event is pending.
C29_CascadesTerminate == <>[](events = EmptyBag)

\* A rating write, a user update and the book updates they caused were all handled:
\* the last invocation was syncBooksInfo writing a projection, nothing is pending
C29_Witness ==
    /\ events = EmptyBag
    /\ ret.fn = "syncBooksInfo" /\ ret.result = "success" /\ ret.written # {}
    /\ \E u \in Users : ratings[ret.id][u] # 0
    /\ books[ret.id].exists /\ OrZero(books[ret.id].avgRating) # Zero
    /\ books[ret.id].authorName = "B" /\ users[books[ret.id].authorId] = "B"

\* C30: a mutating operation called with no user signed in writes nothing to the
\* store, fires no trigger, sets the error "User not authenticated", returns its
\* failure value (null for publishBook, false for the others) and has the loading
\* flag false when it returns.
C30_UnauthenticatedCallRefused ==
    [][\A c \in GuestCalls :
         UnauthCall(c[1], c[2]) =>
             /\ UNCHANGED <<books, ratings, ratingUser, saved, users, events>>
             /\ guest'[c[1]].error = "User not authenticated"
             /\ guest'[c[1]].returned = (IF c[2] = "publishBook" THEN "null" ELSE "false")
             /\ ~guest'[c[1]].loading]_vars

\* Every state object refused a call, BookState a rateBook call and AuthorState a
\* publishBook call, while a projection is in the store and no rating is
C30_Witness ==
    /\ \A o \in StateObjects :
          guest[o].op # "none" /\ guest[o].error = "User not authenticated"
    /\ guest["BookState"].op = "rateBook" /\ guest["BookState"].returned = "false"
    /\ guest["AuthorState"].op = "publishBook" /\ guest["AuthorState"].returned = "null"
    /\ \E u \in Users, b \in Books : saved[u][b].exists
    /\ \A u \in Users, b \in Books : ratings[b][u] = 0

=============================================================================
